---- MODULE Spec2Model ----
\* finddupe (thomas694/finddupe, v1.35): the duplicate-detection engine of
\* finddupe.c and the path expander's reference bookkeeping of myglob.c,
\* as a state machine over a small NTFS-like file system.
EXTENDS Integers, Sequences, FiniteSets, TLC

\* ------------------------------------------------------------------ bounds
\* command-line file patterns handled in one run
MaxArgs == 2
\* I/O failures the environment may inject in one run
MaxFaults == 1
\* bytes of a file covered by the prefix signature (BYTES_DO_CHECKSUM_OF,
\* 32768 in the source, scaled to the model's file contents)
PrefixBytes == 2
\* longest byte sequence handed to the hasher in one call, when the hasher is
\* checked on its own
MaxChunk == 2

\* ------------------------------------------------------- program constants
UNITS_PER_ALLOCATION == 102400
CHUNK_SIZE == 65536
LINK_LIMIT == 1023
\* TCHAR is a 16-bit code unit (the UNICODE build)
TCHAR_BYTES == 2

\* --------------------------------------------------- 32-bit unsigned words
\* An unsigned int is kept as its four bytes, least significant first, as it
\* lies in memory on x86; memcmp and the shifts below work on these bytes.
Byte == 0..255
U32(n) == << n % 256, (n \div 256) % 256, (n \div 65536) % 256, (n \div 16777216) % 256 >>
Zero32 == << 0, 0, 0, 0 >>

RECURSIVE XorBits(_, _, _)
XorBits(a, b, n) ==
    IF n = 0 THEN 0
    ELSE ((a + b) % 2) + 2 * XorBits(a \div 2, b \div 2, n - 1)
\* the exclusive or of two bytes, taken nibble by nibble from a table
Xor4 == [a \in 0..15 |-> [b \in 0..15 |-> XorBits(a, b, 4)]]
Xor8(a, b) == Xor4[a % 16][b % 16] + 16 * Xor4[a \div 16][b \div 16]

\* (unsigned)(char)d : char is signed, the byte is sign-extended to 32 bits
SignExt(d) == IF d >= 128 THEN << d, 255, 255, 255 >> ELSE << d, 0, 0, 0 >>

Xor32(x, y) == << Xor8(x[1], y[1]), Xor8(x[2], y[2]), Xor8(x[3], y[3]), Xor8(x[4], y[4]) >>

Add32(x, y) ==
    LET s1 == x[1] + y[1]
        s2 == x[2] + y[2] + (s1 \div 256)
        s3 == x[3] + y[3] + (s2 \div 256)
        s4 == x[4] + y[4] + (s3 \div 256)
    IN  << s1 % 256, s2 % 256, s3 % 256, s4 % 256 >>

\* (Reg >> 8) ^ ((Reg & 0xff) << 24) ^ ((Reg & 0xff) << 9)
CrcStep(r) ==
    << r[2], Xor8(r[3], (2 * r[1]) % 256), Xor8(r[4], r[1] \div 128), r[1] >>

\* (Sum << 1) + (Sum >> 31)
SumStep(s) ==
    << ((2 * s[1]) % 256) + (s[4] \div 128),
       ((2 * s[2]) % 256) + (s[1] \div 128),
       ((2 * s[3]) % 256) + (s[2] \div 128),
       ((2 * s[4]) % 256) + (s[3] \div 128) >>

\* ------------------------------------------------------------ the hasher
ZeroChecksum == [Crc |-> Zero32, Sum |-> Zero32]

\* (a variant for C30: each call starts its sum from 0 instead of Check->Sum)
RECURSIVE CalcCrcFresh(_, _)
CalcCrcFresh(Check, Data) ==
    IF Data = << >> THEN [Crc |-> Check.Crc, Sum |-> Zero32]
    ELSE LET before == CalcCrcFresh(Check, SubSeq(Data, 1, Len(Data) - 1))
             d == Data[Len(Data)]
         IN  [Crc |-> CrcStep(Xor32(before.Crc, SignExt(d))),
              Sum |-> SumStep(Add32(before.Sum, SignExt(d)))]
RECURSIVE CalcCrc(_, _)
CalcCrc(Check, Data) ==
    IF Data = << >> THEN Check
    ELSE CalcCrc([Crc |-> CrcStep(Xor32(Check.Crc, SignExt(Head(Data)))),
                  Sum |-> SumStep(Add32(Check.Sum, SignExt(Head(Data))))],
                 Tail(Data))

\* memcmp over the eight bytes of a Checksum_t (Crc first), as -1, 0, 1
RECURSIVE memcmpBytes(_, _)
memcmpBytes(x, y) ==
    IF x = << >> THEN 0
    ELSE IF Head(x) < Head(y) THEN -1
    ELSE IF Head(x) > Head(y) THEN 1
    ELSE memcmpBytes(Tail(x), Tail(y))
memcmpChecksum(c1, c2) == memcmpBytes(c1.Crc \o c1.Sum, c2.Crc \o c2.Sum)

\* ------------------------------------------------------------- file names
\* A file name is the sequence of its character codes.
BACKSLASH == 92
PERCENT == 37

RECURSIVE TcharBytes(_)
TcharBytes(name) ==
    IF name = << >> THEN << >>
    ELSE (IF TCHAR_BYTES = 2 THEN << Head(name) % 256, Head(name) \div 256 >>
                            ELSE << Head(name) >>) \o TcharBytes(Tail(name))

\* the 64-bit key is (Crc << 32) | Sum; the pair stands for it
CalcFilenameCRC(filename) == CalcCrc(ZeroChecksum, TcharBytes(filename))

_tcscmp(s, t) == memcmpBytes(s \o << 0 >>, t \o << 0 >>)

ToLower(c) == IF c >= 65 /\ c <= 90 THEN c + 32 ELSE c
Lower(s) == [i \in 1..Len(s) |-> ToLower(s[i])]

\* StrStrI(FileName, pat) != NULL : case-insensitive substring search
StrStrI(name, pat) ==
    \E i \in 1..(Len(name) - Len(pat) + 1) :
        SubSeq(Lower(name), i, i + Len(pat) - 1) = Lower(pat)

\* index (from 0) of the last backslash of the name, -1 when there is none
LastBackslash(name) ==
    LET at == {i \in 1..Len(name) : name[i] = BACKSLASH}
    IN  IF at = {} THEN -1 ELSE (CHOOSE i \in at : \A j \in at : j <= i) - 1

\* the name up to and including its last backslash
DirPrefix(name) == SubSeq(name, 1, LastBackslash(name) + 1)


\* EscapeBatchName: '%' turns into '%%'
RECURSIVE EscapeBatchName(_)
EscapeBatchName(Name) ==
    IF Name = << >> THEN << >>
    ELSE (IF Head(Name) = PERCENT THEN << PERCENT, PERCENT >> ELSE << Head(Name) >>)
         \o EscapeBatchName(Tail(Name))

\* ----------------------------------------------------- the scanned files
\* r\a  c\%  c\a  c\b
PathRA == << 114, BACKSLASH, 97 >>
PathCP == << 99, BACKSLASH, PERCENT >>
PathCA == << 99, BACKSLASH, 97 >>
PathCB == << 99, BACKSLASH, 98 >>
Paths == { PathRA, PathCP, PathCA, PathCB }
Dirs == { DirPrefix(p) : p \in Paths }
\* the batch file lies outside the scanned directories: o.bat
BatName == << 111, 46, 98, 97, 116 >>
NoName == << >>
\* an -ign substring: "B"
IgnoreB == << 66 >>

NoFile == 0

\* nFileIndexHigh / nFileIndexLow of a physical file
FileIndexOf(i) == [High |-> U32(65536), Low |-> U32(i)]

VARIABLES
    \* the file system
    fsIno,          \* path -> physical file (NoFile: no such path)
    fsContent,      \* physical file -> its bytes
    fsReadonly,     \* physical file -> FILE_ATTRIBUTE_READONLY
    fsExtLinks,     \* physical file -> number of its names outside the scanned paths
    fsMtime,        \* physical file -> its modification time
    \* the command line
    BatchFileName, MakeHardLinks, DelDuplicates, DoReadonly, HardlinkSearchMode,
    SkipZeroLength, IgnorePatterns,
    \* main's argument loop and the path expander
    argn,           \* file patterns handled so far
    ReferenceFiles, \* the current pattern follows -ref
    PathData,       \* reference directories recorded by Recurse
    pending,        \* names the running MyGlob call has still to hand to ProcessFile
    \* the candidate index
    Records,        \* the FileData_t records of all blocks, in storing order
    FileData,       \* (index before) the first record of the current block
    NumAllocated, NumUnique,
    Others,         \* the stored records of files outside the scanned paths: how many,
                    \* and after how many records of Records they lie in the store
    FileDataMap,    \* file size -> root record of that size's tree
    FilenameSet,    \* file name hash -> memoized full-file checksum
    DupeStats,
    Script,         \* lines written to the batch file by EliminateDuplicate
    Groups,         \* the hard-link groups printed by WalkTree: header numbers and names
    status,         \* "run", "exit" (exit(EXIT_FAILURE)), "hang", "done"
    faults,         \* I/O failures injected so far
    \* history of the run, for stating the properties
    ev,             \* what the last ProcessFile call did
    touched,        \* names deleted, re-linked or named in a del/fsutil line so far
    refPrefixes,    \* directory prefixes of the -ref patterns handled so far
    judged,         \* incoming files judged ContentEqual or HardLinked so far: files, bytes
    observed,       \* names handed to ProcessFile so far
    processed,      \* names of the ProcessFile calls so far that did not fail to open a file
    taken,          \* name -> how the call that handled it went (see TakenBy)
    \* the hasher on its own
    hasher          \* two byte sequences and the checksums computed over them

vars == << fsIno, fsContent, fsReadonly, fsExtLinks, fsMtime,
           BatchFileName, MakeHardLinks, DelDuplicates, DoReadonly, HardlinkSearchMode,
           SkipZeroLength, IgnorePatterns, argn, ReferenceFiles, PathData, pending,
           Records, FileData, NumAllocated, NumUnique, Others, FileDataMap, FilenameSet,
           DupeStats, Script, Groups, status, faults, ev, touched, refPrefixes, judged,
           observed, processed, taken, hasher >>

\* BatchFile != NULL
BatchFile == BatchFileName # NoName

\* The part of the state one ProcessFile call reads and writes.
World == [ fsIno |-> fsIno, fsReadonly |-> fsReadonly, fsMtime |-> fsMtime,
           Records |-> Records, FileData |-> FileData, NumAllocated |-> NumAllocated,
           NumUnique |-> NumUnique, FileDataMap |-> FileDataMap,
           FilenameSet |-> FilenameSet, DupeStats |-> DupeStats, Script |-> Script,
           status |-> status, hit |-> {}, ev |-> ev ]

\* nNumberOfLinks of a physical file
NumberOfLinks(W, i) == fsExtLinks[i] + Cardinality({p \in Paths : W.fsIno[p] = i})

\* memset(&ThisFile, 0, sizeof(ThisFile))
ZeroFileData == [ Checksum |-> ZeroChecksum,
                  FileIndex |-> [High |-> Zero32, Low |-> Zero32],
                  NumLinks |-> 0, FileSize |-> 0, FileName |-> NoName,
                  Larger |-> 0, Smaller |-> 0 ]

\* a failure injected at fault point k of this call
Fails(W, F, k) == k \in F
Hit(W, k) == [W EXCEPT !.hit = @ \cup {k}]

Note(W, what) == [W EXCEPT !.ev.ops = Append(@, what)]
Outcome(W, what) == [W EXCEPT !.ev.outcome = what]
Op(op, name, target) == [op |-> op, name |-> name, target |-> target]


\* ------------------------------------------------------------ comparator
\* the loop of ReadFileAndCalculateCRC: fread of a 64 KiB chunk, CalcCrc over it
\* (chunk is the size of Buf)
RECURSIVE ReadChunksOf(_, _, _, _)
ReadChunksOf(chunk, checksum, data, BytesLeft) ==
    IF BytesLeft = 0 THEN [ok |-> TRUE, checksum |-> checksum]
    ELSE LET BytesToRead == IF BytesLeft > chunk THEN chunk ELSE BytesLeft
         IN  IF Len(data) < BytesToRead
             THEN [ok |-> FALSE, checksum |-> checksum]
             ELSE ReadChunksOf(chunk, CalcCrc(checksum, SubSeq(data, 1, BytesToRead)),
                               SubSeq(data, BytesToRead + 1, Len(data)),
                               BytesLeft - BytesToRead)
ReadChunks(checksum, data, BytesLeft) == ReadChunksOf(CHUNK_SIZE, checksum, data, BytesLeft)

ReadFileAndCalculateCRC(W, fileName, fileSize, fail) ==
    IF fail \/ W.fsIno[fileName] = NoFile
    THEN [ok |-> FALSE, checksum |-> ZeroChecksum]
    ELSE ReadChunks(ZeroChecksum, fsContent[W.fsIno[fileName]], fileSize)

\* DupeOf.NumLinks && memcmp(&ThisFile.FileIndex, &DupeOf.FileIndex, ...) == 0
Hardlinked(ThisFile, DupeOf) ==
    DupeOf.NumLinks # 0 /\ ThisFile.FileIndex = DupeOf.FileIndex

\* (a variant for C9: the limit is taken one too high)
LinkCapacityOffByOne(DupeOf) == DupeOf.NumLinks > LINK_LIMIT
\* DupeOf.NumLinks >= 1023
LinkCapacityExhausted(DupeOf) == DupeOf.NumLinks >= LINK_LIMIT

\* kh_get_fn(filenameCRC, 1, &created): the set with the key present
kh_get_fn(set, filenameCRC) ==
    IF filenameCRC \in DOMAIN set THEN set ELSE (filenameCRC :> ZeroChecksum) @@ set

\* a memo entry that counts as not yet computed: chk.Crc == 0
MemoEmpty(chk) == chk.Crc = Zero32

\* (a variant for C16: no two full-file checksums are found equal)
IsDuplicateNever(chk1, chk2) == FALSE
\* memcmp(&chk1, &chk2, sizeof(Checksum_t)) == 0
IsDuplicate(chk1, chk2) == memcmpChecksum(chk1, chk2) = 0

\* history: the files a full-file comparison read although an earlier comparison
\* had stored their checksum in the memo, and the files whose checksum is stored
FullRead(W, names) == [W EXCEPT !.ev.reread = @ \cup (names \cap W.ev.memo)]
Memoized(W, names) == [W EXCEPT !.ev.memo = @ \cup names]

\* history: one full-file comparison, with the memo before and after it and
\* whether one of its reads failed
FullLog(W, DupeOf, before, failed) ==
    [W EXCEPT !.ev.full = Append(@, [dupe |-> DupeOf.FileName, before |-> before,
                                     after |-> W.FilenameSet, failed |-> failed])]

\* (a variant for C29: the results of the two reads are not looked at)
FullReadsOkAlways(doCalc1, ok1, doCalc2, ok2) == TRUE
\* lines 371-372: neither of the reads that were needed has failed
FullReadsOk(doCalc1, ok1, doCalc2, ok2) == (doCalc1 => ok1) /\ (doCalc2 => ok2)

\* The full-file comparison of EliminateDuplicate, lines 354-385:
\* the memo after it and the verdict.
FullCompare(W, ThisFile, DupeOf, F) ==
    LET Compare(fnCRC1, fnCRC2, set1, set2, r1, r2) ==
            LET created1 == fnCRC1 \notin DOMAIN W.FilenameSet
                old1 == IF created1 THEN ZeroChecksum ELSE set1[fnCRC1]
                doCalc1 == created1 \/ MemoEmpty(old1)
                created2 == fnCRC2 \notin DOMAIN set1
                old2 == IF created2 THEN ZeroChecksum ELSE set2[fnCRC2]
                doCalc2 == created2 \/ MemoEmpty(old2)
                chk1 == IF doCalc1 THEN r1.checksum ELSE old1
                chk2 == IF doCalc2 THEN r2.checksum ELSE old2
                set3 == IF doCalc1 THEN [set2 EXCEPT ![fnCRC1] = chk1] ELSE set2
                set4 == IF doCalc2 THEN [set3 EXCEPT ![fnCRC2] = chk2] ELSE set3
                \* the second file is read only if the read of the first did not fail
                failed1 == doCalc1 /\ ~r1.ok
                failed2 == ~failed1 /\ doCalc2 /\ ~r2.ok
                read1 == IF doCalc1 THEN {ThisFile.FileName} ELSE {}
                read2 == IF doCalc2 /\ ~failed1 THEN {DupeOf.FileName} ELSE {}
                W2 == FullRead([W EXCEPT !.FilenameSet = set2], read1 \cup read2)
                W3 == IF failed1 /\ Fails(W, F, "full1") THEN Hit(W2, "full1")
                      ELSE IF failed2 /\ Fails(W, F, "full2") THEN Hit(W2, "full2")
                      ELSE W2
            IN  IF ~FullReadsOk(doCalc1, r1.ok, doCalc2, r2.ok)
                THEN [W |-> FullLog(W3, DupeOf, W.FilenameSet, failed1 \/ failed2),
                      rel |-> "ReadError"]
                ELSE [W |-> FullLog(Memoized([W3 EXCEPT !.FilenameSet = set4],
                                             read1 \cup read2),
                                    DupeOf, W.FilenameSet, failed1 \/ failed2),
                      rel |-> IF IsDuplicate(chk1, chk2) THEN "ContentEqual" ELSE "Distinct"]
        Lookup2(fnCRC1, fnCRC2, set1) ==
            Compare(fnCRC1, fnCRC2, set1, kh_get_fn(set1, fnCRC2),
                    ReadFileAndCalculateCRC(W, ThisFile.FileName, ThisFile.FileSize,
                                            Fails(W, F, "full1")),
                    ReadFileAndCalculateCRC(W, DupeOf.FileName, DupeOf.FileSize,
                                            Fails(W, F, "full2")))
        Lookup1(fnCRC1, fnCRC2) == Lookup2(fnCRC1, fnCRC2, kh_get_fn(W.FilenameSet, fnCRC1))
    IN  Lookup1(CalcFilenameCRC(ThisFile.FileName), CalcFilenameCRC(DupeOf.FileName))

\* --------------------------------------------------------- policy engine
\* (a variant for C14: the failure is reported and the run goes on)
ExitNot(W) == W
\* exit(EXIT_FAILURE)
Exit(W) == [W EXCEPT !.status = "exit"]

\* IsReadonly && !DoReadonly && !Hardlinked : "Skipping duplicate readonly file"
SkipReadonly(IsReadonly, isHardlinked) == IsReadonly /\ ~DoReadonly /\ ~isHardlinked

\* IsReadonly && (MakeHardLinks || DelDuplicates) : _tchmod(name, mode | S_IWUSR)
MakeWritable(IsReadonly) == IsReadonly /\ (MakeHardLinks \/ DelDuplicates)

ScriptLine(cmd, force, name, target) ==
    [cmd |-> cmd, force |-> force, name |-> name, target |-> target]

\* (a variant for C12: the link line is written before the del line)
BatchLinesLinkFirst(ThisFile, DupeOf, IsReadonly, isHardlinked) ==
    << ScriptLine("fsutil", FALSE, ThisFile.FileName, DupeOf.FileName),
       ScriptLine("del", IsReadonly, EscapeBatchName(ThisFile.FileName), NoName) >>
    \o (IF IsReadonly THEN << ScriptLine("attrib", FALSE, ThisFile.FileName, NoName) >>
        ELSE << >>)
\* lines 426-443: the commands put in the batch file
BatchLines(ThisFile, DupeOf, IsReadonly, isHardlinked) ==
    (IF DelDuplicates \/ ~isHardlinked
     THEN << ScriptLine("del", IsReadonly, EscapeBatchName(ThisFile.FileName), NoName) >>
     ELSE << >>)
    \o
    (IF ~DelDuplicates
     THEN IF ~isHardlinked
          THEN << ScriptLine("fsutil", FALSE, ThisFile.FileName, DupeOf.FileName) >>
               \o (IF IsReadonly
                   THEN << ScriptLine("attrib", FALSE, ThisFile.FileName, NoName) >>
                   ELSE << >>)
          ELSE << >>
     ELSE << ScriptLine("rem", FALSE, DupeOf.FileName, NoName) >>)

\* the history entry of each line: the command and the file it is about
RECURSIVE NoteLines(_, _, _)
NoteLines(W, lines, ThisFile) ==
    IF lines = << >> THEN W
    ELSE NoteLines(Note(W, Op(Head(lines).cmd,
                              IF Head(lines).cmd = "rem" THEN Head(lines).name
                              ELSE ThisFile.FileName,
                              Head(lines).target)),
                   Tail(lines), ThisFile)

\* (a variant for C3: the script file is not looked at)
UseBatchNever == FALSE
\* BatchFile != NULL at line 426: the duplicate goes to the script
UseBatch == BatchFile

\* MakeHardLinks && Hardlinked : "Nothing to do"
NothingToDo(isHardlinked) == MakeHardLinks /\ isHardlinked

\* CreateHardLink fails when the existing name is gone or the physical file
\* already carries the file system's maximum of names
CreateHardLinkFails(W, existing) ==
    \/ W.fsIno[existing] = NoFile
    \/ NumberOfLinks(W, W.fsIno[existing]) >= LINK_LIMIT + 1

\* (a variant for C27: the deleted name is never linked again)
LinkAfterDeleteNever == FALSE
\* if (MakeHardLinks) at line 452: the deleted name is made a link of the survivor
LinkAfterDelete == MakeHardLinks

\* (a variant for C5: the survivor's name is unlinked instead of the incoming one)
DeleteOrLinkSurvivor(W, ThisFile, DupeOf, IsReadonly, F) ==
    Note([W EXCEPT !.fsIno[DupeOf.FileName] = NoFile], Op("unlink", DupeOf.FileName, NoName))
\* lines 447-478: _tunlink, CreateHardLink, _tchmod back to the stat'ed mode
DeleteOrLink(W, ThisFile, DupeOf, IsReadonly, F) ==
    LET name == ThisFile.FileName
        \* FileStat.st_mtime, as _tstat64 found it at line 405
        st_mtime == W.fsMtime[W.fsIno[name]]
        Linked(W1, i) ==
            Note(Note([Note([W1 EXCEPT !.fsIno[name] = i], Op("link", name, DupeOf.FileName))
                           EXCEPT !.fsReadonly[i] = IsReadonly, !.fsMtime[i] = st_mtime],
                      Op("chmod", name, NoName)),
                 Op("utime", name, NoName))
        Unlinked(W1) ==
            IF ~LinkAfterDelete THEN W1
            ELSE IF Fails(W1, F, "link") THEN Exit(Hit(W1, "link"))
            ELSE IF CreateHardLinkFails(W1, DupeOf.FileName) THEN Exit(W1)
            ELSE Linked(W1, W1.fsIno[DupeOf.FileName])
    IN  IF Fails(W, F, "unlink")
        THEN Exit(Hit(W, "unlink"))
        ELSE Unlinked(Note([W EXCEPT !.fsIno[name] = NoFile], Op("unlink", name, NoName)))

\* lines 390-479 of EliminateDuplicate, from the label dont_read on
Policy(W, ThisFile, DupeOf, isHardlinked, F) ==
    LET Act(IsReadonly, W1) ==
            IF SkipReadonly(IsReadonly, isHardlinked) THEN [W |-> W, r |-> 1]
            ELSE IF UseBatch
            THEN [W |-> NoteLines([W1 EXCEPT !.Script = @ \o BatchLines(ThisFile, DupeOf,
                                                                IsReadonly, isHardlinked)],
                                  BatchLines(ThisFile, DupeOf, IsReadonly, isHardlinked),
                                  ThisFile),
                  r |-> 2]
            ELSE IF MakeHardLinks \/ DelDuplicates
            THEN IF NothingToDo(isHardlinked) THEN [W |-> W1, r |-> 0]
                 ELSE [W |-> DeleteOrLink(W1, ThisFile, DupeOf, IsReadonly, F), r |-> 2]
            ELSE [W |-> W1, r |-> 2]
        Stat(i, IsReadonly) ==
            Act(IsReadonly,
                IF MakeWritable(IsReadonly)
                THEN Note([W EXCEPT !.fsReadonly[i] = FALSE],
                          Op("chmod", ThisFile.FileName, NoName))
                ELSE W)
    IN  IF Fails(W, F, "stat") \/ W.fsIno[ThisFile.FileName] = NoFile
        THEN [W |-> Exit(IF Fails(W, F, "stat") THEN Hit(W, "stat") ELSE W), r |-> 0]
        ELSE Stat(W.fsIno[ThisFile.FileName], W.fsReadonly[W.fsIno[ThisFile.FileName]])

\* (a variant for C4: the bytes of the duplicate are not added)
CountDuplicateFilesOnly(W, ThisFile) == [W EXCEPT !.DupeStats.DuplicateFiles = @ + 1]
\* DupeStats.DuplicateFiles += 1; DupeStats.DuplicateBytes += FileSize
CountDuplicate(W, ThisFile) ==
    [W EXCEPT !.DupeStats.DuplicateFiles = @ + 1,
              !.DupeStats.DuplicateBytes = @ + ThisFile.FileSize]

\* the history entry of one call of EliminateDuplicate: the record compared with,
\* its name and link count at the call, the comparator's verdict, the result r
Verdict(W, Ptr, rel, r) ==
    [W EXCEPT !.ev.cmp = Append(@, [dupe |-> Ptr, name |-> W.Records[Ptr].FileName,
                                    links |-> W.Records[Ptr].NumLinks,
                                    rel |-> rel, r |-> r])]

\* EliminateDuplicate(ThisFile, *Ptr): the world after the call and its result
EliminateDuplicate(W, ThisFile, Ptr, F) ==
    LET DupeOf == W.Records[Ptr]
        Done(p, rel) == [W |-> Verdict(p.W, Ptr, rel, p.r), r |-> p.r]
        Compared(c) ==
            IF c.rel # "ContentEqual"
            THEN [W |-> Verdict(c.W, Ptr, c.rel, 0), r |-> 0]
            ELSE Done(Policy(CountDuplicate(c.W, ThisFile), ThisFile, DupeOf, FALSE, F),
                      "ContentEqual")
    IN  IF ThisFile.FileSize # DupeOf.FileSize
        THEN [W |-> Verdict(W, Ptr, "SizeMismatch", 0), r |-> 0]
        ELSE IF Hardlinked(ThisFile, DupeOf)
        THEN Done(Policy(W, ThisFile, DupeOf, TRUE, F), "HardLinked")
        ELSE IF LinkCapacityExhausted(DupeOf)
        THEN [W |-> Verdict(W, Ptr, "Declined", 0), r |-> 0]
        ELSE Compared(FullCompare(W, ThisFile, DupeOf, F))


\* -------------------------------------------------------- candidate index
\* IsNonRefPath: "exit" for a name whose last backslash is its first character,
\* else whether the name's directory is none of the recorded reference paths
IsNonRefPath(filename) ==
    IF LastBackslash(filename) = 0 THEN "exit"
    ELSE IF \E k \in 1..Len(PathData) : _tcscmp(DirPrefix(filename), PathData[k]) = 0
    THEN "ref" ELSE "nonref"

\* !ReferenceFiles && !HardlinkSearchMode, the first two conditions of line 616
MayEliminate == ~ReferenceFiles /\ ~HardlinkSearchMode

\* The record store is a chain of blocks of UNITS_PER_ALLOCATION records; a slot
\* is numbered by its block's base and its place in the block, from 1. Records
\* holds the records of the scanned paths; the slots of the records of other
\* files lie between those of Records[Others.after] and Records[Others.after + 1].
\* SlotIndex gives the place in Records of the record in a slot.
SlotIndex(slot) == IF slot <= Others.after THEN slot ELSE slot - Others.count

\* FileData + (NumUnique % UNITS_PER_ALLOCATION)
NewSlot(W) == SlotIndex(W.FileData + (W.NumUnique % UNITS_PER_ALLOCATION) + 1)

StoreFileData(W, ThisFile, filenameCRC) ==
    LET full == W.NumUnique >= W.NumAllocated
        base == IF full THEN W.NumAllocated ELSE W.FileData
        at == SlotIndex(base + (W.NumUnique % UNITS_PER_ALLOCATION) + 1)
        recs == [k \in 1..(IF at > Len(W.Records) THEN at ELSE Len(W.Records)) |->
                    IF k = at THEN ThisFile ELSE W.Records[k]]
    IN  [W EXCEPT !.NumAllocated = IF full THEN @ + UNITS_PER_ALLOCATION ELSE @,
                  !.FileData = base,
                  !.Records = recs,
                  !.NumUnique = @ + 1,
                  !.FileDataMap = IF ThisFile.FileSize \in DOMAIN @ THEN @
                                  ELSE (ThisFile.FileSize :> at) @@ @,
                  !.FilenameSet = kh_get_fn(@, filenameCRC)]

\* the label store_it of CheckDuplicate
StoreIt(W, ThisFile, filenameCRC) ==
    StoreFileData([W EXCEPT !.DupeStats.TotalFiles = @ + 1,
                            !.DupeStats.TotalBytes = @ + ThisFile.FileSize,
                            !.ev.outcome = "stored"],
                  ThisFile, filenameCRC)

\* (a variant for C21: the child reference is not written)
LinkNowhere(W1, Ptr, side) == W1
\* *Link = FileData + (NumUnique % UNITS_PER_ALLOCATION), line 653
LinkChild(W1, Ptr, side) == [W1 EXCEPT !.Records[Ptr][side] = NewSlot(W1)]

\* The loop of CheckDuplicate, lines 604-660. Its result: the world, the record
\* to store, and how the loop was left ("return", "store", "exit").
RECURSIVE TreeLoop(_, _, _, _, _, _, _)
TreeLoop(W, ThisFile, Ptr, prevPtr, oldComp, fuel, F) ==
    LET Leave(W1, how) == [W |-> W1, ThisFile |-> ThisFile, how |-> how]
        \* lines 628-659: the step to a child, or the place of the new record
        Descend(W1, comp, side) ==
            IF comp = 3
            THEN [W |-> [W1 EXCEPT !.Records[prevPtr].Larger = NewSlot(W1)],
                  ThisFile |-> [ThisFile EXCEPT !.Larger = Ptr], how |-> "store"]
            ELSE IF W1.Records[Ptr][side] = 0
            THEN Leave(LinkChild(W1, Ptr, side), "store")
            ELSE TreeLoop(W1, ThisFile, W1.Records[Ptr][side], Ptr, comp, fuel - 1, F)
        \* lines 619-627: the result r of EliminateDuplicate
        Eliminated(e, comp) ==
            IF e.W.status # "run" THEN Leave(e.W, "exit")
            ELSE IF e.r # 0
            THEN Leave(IF e.r = 2 THEN [e.W EXCEPT !.Records[Ptr].NumLinks = @ + 1]
                       ELSE e.W, "store")
            ELSE Descend(e.W, comp, IF comp > 0 THEN "Larger" ELSE "Smaller")
        \* lines 606-618: equal signatures
        Compared(c, nonref) ==
            IF c = 0 /\ _tcscmp(ThisFile.FileName, W.Records[Ptr].FileName) = 0
            THEN Leave(Outcome(W, "samename"), "return")
            ELSE IF nonref = "exit" THEN Leave(Exit(W), "exit")
            ELSE Eliminated(IF nonref = "nonref" THEN EliminateDuplicate(W, ThisFile, Ptr, F)
                            ELSE [W |-> W, r |-> 0],
                            IF c = 0 THEN 2 ELSE IF oldComp = 2 THEN 3 ELSE c)
        Signature(c) ==
            Compared(c, IF c = 0 /\ MayEliminate THEN IsNonRefPath(ThisFile.FileName)
                        ELSE "skip")
    IN  IF fuel = 0
        THEN Leave([W EXCEPT !.status = "hang"], "exit")
        ELSE Signature(memcmpChecksum(ThisFile.Checksum, W.Records[Ptr].Checksum))

CheckDuplicate(W, Ptr, ThisFile, filenameCRC, F) ==
    LET After(t) == IF t.how = "store" THEN StoreIt(t.W, t.ThisFile, filenameCRC) ELSE t.W
    IN  IF W.NumUnique = 0 \/ Ptr = 0 THEN StoreIt(W, ThisFile, filenameCRC)
        ELSE After(TreeLoop(W, ThisFile, Ptr, 0, 0, Len(W.Records) + 1, F))

\* -------------------------------------------------- identity & content probe
\* what an uninitialised Checksum_t may hold when ReadFileAndCalculateCRC32KB
\* leaves by its bare "return;"
Garbage == { ZeroChecksum,
             [Crc |-> U32(1), Sum |-> U32(1)],
             [Crc |-> << 2, 4, 1, 2 >>, Sum |-> << 11, 0, 0, 0 >>] }

\* The handles of a ProcessFile call, by the name of the opened file: open holds
\* the handles that are open, reclosed those given to CloseHandle once more after
\* they were closed.
\* OpenTheFile, when CreateFile succeeds
CreateFile(W, FileName) == [W EXCEPT !.ev.open = @ \cup {FileName}]
CloseHandle(W, FileName) ==
    IF FileName \in W.ev.open THEN [W EXCEPT !.ev.open = @ \ {FileName}]
    ELSE [W EXCEPT !.ev.reclosed = @ \cup {FileName}]
\* lines 720-727 of ReadFileAndCalculateCRC32KB: ReadFile failed, the handle is
\* closed before the bare return
ReadFailed(W, FileName) == CloseHandle(W, FileName)

\* ReadFileAndCalculateCRC32KB on an open handle of physical file i
ReadFileAndCalculateCRC32KB(i, FileSize) ==
    LET BytesToRead == IF FileSize > PrefixBytes THEN PrefixBytes ELSE FileSize
        data == fsContent[i]
        BytesRead == IF Len(data) < BytesToRead THEN Len(data) ELSE BytesToRead
        sum == CalcCrc(ZeroChecksum, SubSeq(data, 1, BytesRead))
    IN  [sum EXCEPT !.Sum = Add32(@, U32(FileSize))]

\* Ptr->Checksum.Crc == 0 : the root's prefix signature is still to be computed
RootSigMissing(root) == root.Checksum.Crc = Zero32

\* the name contains one of the -ign substrings
Ignored(FileName) ==
    \E k \in 1..Len(IgnorePatterns) : StrStrI(FileName, IgnorePatterns[k])

\* lines 895-918 of ProcessFile: the deferred prefix signature of the bucket's
\* root, the prefix signature of the file, CheckDuplicate
LookupAndCheck(W, ThisFile0, crc, F, g) ==
    LET found == ThisFile0.FileSize \in DOMAIN W.FileDataMap
        Ptr == IF found THEN W.FileDataMap[ThisFile0.FileSize] ELSE 0
        probe == ~HardlinkSearchMode /\ found
        root == IF Ptr = 0 THEN ZeroFileData ELSE W.Records[Ptr]
        rootCalc == probe /\ RootSigMissing(root)
        rootOpenFails == rootCalc /\ (Fails(W, F, "openroot") \/ W.fsIno[root.FileName] = NoFile)
        \* line 912: the prefix signature of the file itself
        \* and CloseHandle(FileHandle) at line 913
        Probed(W1, thisSum) ==
            CheckDuplicate(CloseHandle(IF probe /\ Fails(W, F, "read")
                                       THEN ReadFailed(Hit(W1, "read"), ThisFile0.FileName)
                                       ELSE W1,
                                       ThisFile0.FileName),
                           Ptr, [ThisFile0 EXCEPT !.Checksum = thisSum], crc, F)
        \* lines 901-910: the deferred prefix signature of the root
        RootProbed(W1) ==
            Probed(W1, IF ~probe THEN ThisFile0.Checksum
                       ELSE IF Fails(W, F, "read") THEN g
                       ELSE ReadFileAndCalculateCRC32KB(W.fsIno[ThisFile0.FileName],
                                                        ThisFile0.FileSize))
    IN  IF rootOpenFails
        THEN [(IF Fails(W, F, "openroot") THEN Hit(W, "openroot") ELSE W)
                  EXCEPT !.DupeStats.CantReadFiles = @ + 1, !.ev.outcome = "rootopenfail"]
        ELSE RootProbed(IF rootCalc
                        THEN CloseHandle(
                               [(IF Fails(W, F, "readroot")
                                 THEN ReadFailed(Hit(CreateFile(W, root.FileName), "readroot"),
                                                 root.FileName)
                                 ELSE CreateFile(W, root.FileName))
                                  EXCEPT !.Records[Ptr].Checksum =
                                      IF Fails(W, F, "readroot") THEN g
                                      ELSE ReadFileAndCalculateCRC32KB(W.fsIno[root.FileName],
                                                                       root.FileSize)],
                               root.FileName)
                        ELSE W)

\* lines 842-893 of ProcessFile: the record of an opened file
FileRecord(FileName, i, nlinks, size) ==
    [ZeroFileData EXCEPT !.FileIndex = FileIndexOf(i),
                         !.NumLinks = nlinks,
                         !.FileSize = size,
                         !.Checksum = IF HardlinkSearchMode
                                      THEN [Crc |-> FileIndexOf(i).High,
                                            Sum |-> FileIndexOf(i).Low]
                                      ELSE ZeroChecksum,
                         !.FileName = FileName]

\* (a variant for C15: the set of known names is not asked)
KnownNameNever(set, crc) == FALSE
\* kh_get_fn(crc, 0, &created) != kh_end(FilenameSet): the name was stored before
KnownName(set, crc) == crc \in DOMAIN set

\* ProcessFile(FileName) with the I/O failures F and the garbage value g
ProcessFile(W0, FileName, F, g) ==
    LET Opened(W, crc, i, nlinks, size) ==
            IF Fails(W, F, "open") \/ i = NoFile
            THEN [(IF Fails(W, F, "open") THEN Hit(W, "open") ELSE W)
                      EXCEPT !.DupeStats.CantReadFiles = @ + 1, !.ev.outcome = "cantopen"]
            ELSE IF HardlinkSearchMode /\ nlinks = 1
            THEN Outcome(CloseHandle(CreateFile(W, FileName), FileName), "notlinked")
            ELSE IF size = 0 /\ SkipZeroLength
            THEN [CloseHandle(CreateFile(W, FileName), FileName)
                      EXCEPT !.DupeStats.ZeroLengthFiles = @ + 1, !.ev.outcome = "zerolen"]
            ELSE LookupAndCheck(CreateFile(W, FileName),
                                FileRecord(FileName, i, nlinks, size), crc, F, g)
        Named(W, crc) ==
            IF KnownName(W.FilenameSet, crc) THEN Outcome(W, "known")
            ELSE IF BatchFile /\ _tcscmp(FileName, BatchFileName) = 0
            THEN Outcome(W, "batchfile")
            ELSE IF Ignored(FileName)
            THEN StoreFileData([W EXCEPT !.DupeStats.IgnoredFiles = @ + 1,
                                         !.ev.outcome = "ignored"],
                               [ZeroFileData EXCEPT !.FileName = FileName], crc)
            ELSE Opened(W, crc, W.fsIno[FileName], NumberOfLinks(W, W.fsIno[FileName]),
                        IF W.fsIno[FileName] = NoFile THEN 0
                        ELSE Len(fsContent[W.fsIno[FileName]]))
    IN  Named(W0, CalcFilenameCRC(FileName))


\* ------------------------------------------------------------ path expander
STAR == 42
HasWildcard(pat) == \E k \in 1..Len(pat) : pat[k] = STAR

\* the patterns of a run: r\*  c\*  c\b
Patterns == { d \o << STAR >> : d \in Dirs } \cup { PathCB }

RECURSIVE SortNames(_)
SortNames(S) ==
    IF S = {} THEN << >>
    ELSE LET m == CHOOSE x \in S : \A y \in S : _tcscmp(x, y) <= 0
         IN  << m >> \o SortNames(S \ {m})

\* MyGlob(Pattern, ...): the names it will hand to ProcessFile, in order.
\* A pattern with a wildcard goes to Recurse, which lists the files of the
\* base directory and sorts them; a plain name is handed over if it exists.
MyGlob(pat) ==
    IF HasWildcard(pat)
    THEN SortNames({p \in Paths : fsIno[p] # NoFile /\ DirPrefix(p) = DirPrefix(pat)})
    ELSE IF fsIno[pat] # NoFile THEN << pat >> ELSE << >>

\* Recurse, lines 220-235: with MatchDirs == 0 and ReferenceFiles set, the base
\* path of the pattern is appended to PathData
RecordsRefPath(ref, pat) == ref /\ HasWildcard(pat)

\* one iteration of main's loop over the file patterns (lines 1166-1218),
\* up to the first call of ProcessFile
MainArg(ref, pat) ==
    /\ status = "run"
    /\ pending = << >>
    /\ argn < MaxArgs
    /\ argn' = argn + 1
    /\ ReferenceFiles' = ref
    /\ PathData' = IF RecordsRefPath(ref, pat) THEN Append(PathData, DirPrefix(pat))
                   ELSE PathData
    /\ pending' = MyGlob(pat)
    /\ refPrefixes' = IF ref THEN refPrefixes \cup {DirPrefix(pat)} ELSE refPrefixes
    /\ UNCHANGED hasher
    /\ UNCHANGED << fsIno, fsContent, fsReadonly, fsExtLinks, fsMtime, BatchFileName,
                    MakeHardLinks, DelDuplicates, DoReadonly, HardlinkSearchMode,
                    SkipZeroLength, IgnorePatterns, Records, FileData, NumAllocated,
                    NumUnique, Others, FileDataMap, FilenameSet, DupeStats, Script, Groups,
                    status, faults, ev, touched, judged, observed, processed, taken >>


\* One more iteration of that loop, taken as a whole: a pattern over a directory
\* outside the scanned paths, which holds n files of n different sizes (4, 5, ...),
\* none the size of a scanned file, each with a second name elsewhere, no name
\* with an -ign substring. ProcessFile finds no record of the size of any of
\* them, CheckDuplicate goes to store_it at once, and StoreFileData fills the
\* slots of the current block; their entries of FileDataMap and FilenameSet are
\* left out, as no scanned path has such a size or name, and TotalBytes keeps
\* counting the bytes of the scanned paths only. n is such that the block is
\* left with one free slot or none.
ScanOthers ==
    /\ status = "run"
    /\ pending = << >>
    /\ Others.count = 0
    /\ NumUnique >= 1
    /\ \E free \in 0..1 :
       \E n \in { NumAllocated - NumUnique - free } :
          /\ n >= 1
          /\ NumUnique' = NumUnique + n
          /\ Others' = [count |-> n, after |-> Len(Records)]
          /\ DupeStats' = [DupeStats EXCEPT !.TotalFiles = @ + n]
    /\ ReferenceFiles' = FALSE
    /\ UNCHANGED hasher
    /\ UNCHANGED << fsIno, fsContent, fsReadonly, fsExtLinks, fsMtime, BatchFileName,
                    MakeHardLinks, DelDuplicates, DoReadonly, HardlinkSearchMode,
                    SkipZeroLength, IgnorePatterns, argn, PathData, pending, Records,
                    FileData, NumAllocated, FileDataMap, FilenameSet, Script, Groups,
                    status, faults, ev, touched, refPrefixes, judged, observed, processed,
                    taken >>

\* ------------------------------------------------------------------ actions
FaultKinds == { "open", "openroot", "read", "readroot", "full1", "full2",
                "stat", "unlink", "link" }

\* the names an operation of the step deleted, re-linked or put in a del/fsutil line
TouchedBy(e) ==
    { e.ops[k].name : k \in { j \in 1..Len(e.ops) :
                               e.ops[j].op \in {"unlink", "link", "del", "fsutil"} } }

\* the comparator verdicts of the step that confirm a duplicate
Confirmed(e) ==
    { k \in 1..Len(e.cmp) : e.cmp[k].rel \in {"ContentEqual", "HardLinked"} }

\* the history of a step: the name handed over, what it named before the step
\* (physical file, read-only attribute), the state the step started from, the
\* names whose full-file checksum a comparison has stored (memo: so far,
\* memoBefore: before the step), the stored ones the step read again (reread),
\* the handles of the call, its full-file comparisons (full)
StepOf(FileName) ==
    [ path |-> FileName, ino |-> fsIno[FileName],
      ro |-> IF fsIno[FileName] = NoFile THEN FALSE ELSE fsReadonly[fsIno[FileName]],
      fsIno |-> fsIno, fsReadonly |-> fsReadonly, fsMtime |-> fsMtime,
      DupeStats |-> DupeStats,
      Script |-> Script, observed |-> observed, processed |-> processed,
      Records |-> Records, FilenameSet |-> FilenameSet,
      memo |-> ev.memo, memoBefore |-> ev.memo, reread |-> {},
      open |-> {}, reclosed |-> {}, full |-> << >>,
      outcome |-> "seen", cmp |-> << >>, ops |-> << >>, hit |-> {} ]
NoStep ==
    [ path |-> NoName, ino |-> NoFile, ro |-> FALSE,
      fsIno |-> << >>, fsReadonly |-> << >>, fsMtime |-> << >>, DupeStats |-> << >>,
      Script |-> << >>, observed |-> {}, processed |-> {},
      Records |-> << >>, FilenameSet |-> << >>,
      memo |-> {}, memoBefore |-> {}, reread |-> {},
      open |-> {}, reclosed |-> {}, full |-> << >>,
      outcome |-> "none", cmp |-> << >>, ops |-> << >>, hit |-> {} ]

\* what is kept of the call that handled a name: its outcome, whether a comparator
\* verdict confirmed it as a duplicate, whether a survivor was declined for its
\* link count, whether EliminateDuplicate returned a result other than 0, whether the call ran for a -ref pattern or a recorded reference path
TakenBy(e) ==
    [ outcome |-> e.outcome,
      judged |-> Confirmed(e) # {},
      declined |-> \E j \in 1..Len(e.cmp) : e.cmp[j].rel = "Declined",
      eliminated |-> \E j \in 1..Len(e.cmp) : e.cmp[j].r # 0,
      ref |-> ReferenceFiles \/ IsNonRefPath(e.path) = "ref" ]

\* the callback of the path expander: ProcessFile on the next name
CallProcessFile ==
    /\ status = "run"
    /\ pending # << >>
    /\ \E F \in { X \in SUBSET FaultKinds : Cardinality(X) <= MaxFaults - faults } :
       \E g \in (IF F \cap {"read", "readroot"} = {} THEN {ZeroChecksum} ELSE Garbage) :
       \E W \in { ProcessFile([World EXCEPT !.ev = StepOf(Head(pending))],
                              Head(pending), F, g) } :
             /\ fsIno' = W.fsIno
             /\ fsReadonly' = W.fsReadonly
             /\ fsMtime' = W.fsMtime
             /\ Records' = W.Records
             /\ FileData' = W.FileData
             /\ NumAllocated' = W.NumAllocated
             /\ NumUnique' = W.NumUnique
             /\ FileDataMap' = W.FileDataMap
             /\ FilenameSet' = W.FilenameSet
             /\ DupeStats' = W.DupeStats
             /\ Script' = W.Script
             /\ status' = W.status
             /\ faults' = faults + Cardinality(W.hit)
             /\ ev' = [W.ev EXCEPT !.hit = W.hit]
             /\ touched' = touched \cup TouchedBy(W.ev)
             /\ judged' = IF Confirmed(W.ev) = {} THEN judged
                          ELSE [files |-> judged.files + 1,
                                bytes |-> judged.bytes + Len(fsContent[fsIno[Head(pending)]])]
             /\ observed' = observed \cup {Head(pending)}
             /\ processed' = IF W.ev.outcome \in {"cantopen", "rootopenfail"}
                             THEN processed ELSE processed \cup {Head(pending)}
             /\ taken' = IF W.ev.outcome = "known" THEN taken
                          ELSE (Head(pending) :> TakenBy(W.ev)) @@ taken
             /\ pending' = IF W.status = "run" THEN Tail(pending) ELSE << >>
    /\ UNCHANGED hasher
    /\ UNCHANGED << fsContent, fsExtLinks, BatchFileName, MakeHardLinks, DelDuplicates,
                    DoReadonly, HardlinkSearchMode, SkipZeroLength, IgnorePatterns,
                    argn, ReferenceFiles, PathData, refPrefixes, Groups, Others >>

\* ------------------------------------------------- hard-link group walker
\* the for loop of WalkTree: the names of the n records from t on along Larger
RECURSIVE ChainNames(_, _, _)
ChainNames(Recs, t, n) ==
    IF n = 0 \/ t = 0 THEN << >>
    ELSE << Recs[t].FileName >> \o ChainNames(Recs, Recs[t].Larger, n - 1)

\* (a variant for C11: the first record of the chain is forgotten)
ChainHeadItem(linksFirst, item) == item
\* linksFirst != NULL ? linksFirst : item
ChainHead(linksFirst, item) == IF linksFirst # 0 THEN linksFirst ELSE item

\* WalkTree(item, linksFirst, groupLen): the groups it prints, in printing order;
\* hang is set when the recursion does not come to an end
RECURSIVE WalkTree(_, _, _, _, _)
WalkTree(Recs, item, linksFirst, groupLen, fuel) ==
    LET larger == Recs[item].Larger
        sameGroup == larger # 0 /\ memcmpChecksum(Recs[larger].Checksum, Recs[item].Checksum) = 0
        group == [ K |-> groupLen + 1, N |-> Recs[item].NumLinks,
                   names |-> ChainNames(Recs, ChainHead(linksFirst, item), groupLen + 1) ]
        Join(a, b) == [groups |-> a.groups \o b.groups, hang |-> a.hang \/ b.hang]
        None == [groups |-> << >>, hang |-> FALSE]
        Smaller == IF Recs[item].Smaller # 0
                   THEN WalkTree(Recs, Recs[item].Smaller, 0, 0, fuel - 1)
                   ELSE None
    IN  IF fuel = 0 THEN [groups |-> << >>, hang |-> TRUE]
        ELSE IF sameGroup
        THEN Join(WalkTree(Recs, larger, ChainHead(linksFirst, item), groupLen + 1, fuel - 1),
                  Smaller)
        ELSE Join(Join(IF larger # 0 THEN WalkTree(Recs, larger, 0, 0, fuel - 1) ELSE None,
                       [groups |-> << group >>, hang |-> FALSE]),
                  Smaller)

\* the loop of main over the buckets of FileDataMap (lines 1228-1230); khash visits
\* its buckets by index, which for the sizes of the model's files is by size
RECURSIVE WalkBuckets(_, _, _)
WalkBuckets(Recs, Map, sizes) ==
    IF sizes = {} THEN [groups |-> << >>, hang |-> FALSE]
    ELSE LET m == CHOOSE x \in sizes : \A y \in sizes : x <= y
             first == WalkTree(Recs, Map[m], 0, 0, Len(Recs) + 1)
             rest == WalkBuckets(Recs, Map, sizes \ {m})
         IN  [groups |-> first.groups \o rest.groups, hang |-> first.hang \/ rest.hang]

\* the end of main (lines 1220-1270): in hard-link search mode the groups are
\* printed and counted; otherwise "No files to process" is a failure
Finish ==
    /\ status = "run"
    /\ pending = << >>
    /\ argn > 0
    /\ \E walk \in { IF HardlinkSearchMode
                       THEN WalkBuckets(Records, FileDataMap, DOMAIN FileDataMap)
                       ELSE [groups |-> << >>, hang |-> FALSE] } :
          /\ Groups' = walk.groups
          /\ DupeStats' = IF HardlinkSearchMode
                          THEN [DupeStats EXCEPT !.HardlinkGroups =
                                                     Len(walk.groups) + Others.count]
                          ELSE DupeStats
          /\ status' = IF walk.hang THEN "hang"
                       ELSE IF ~HardlinkSearchMode /\ DupeStats.TotalFiles = 0 THEN "nofiles"
                       ELSE "done"
    /\ UNCHANGED hasher
    /\ UNCHANGED << fsIno, fsContent, fsReadonly, fsExtLinks, fsMtime, BatchFileName,
                    MakeHardLinks, DelDuplicates, DoReadonly, HardlinkSearchMode,
                    SkipZeroLength, IgnorePatterns, argn, ReferenceFiles, PathData, pending,
                    Records, FileData, NumAllocated, NumUnique, Others, FileDataMap,
                    FilenameSet, Script, faults, ev, touched, refPrefixes, judged, observed,
                    processed, taken >>

\* ---------------------------------------------------------- initial states
\* the option combinations main accepts: -bat, -hardlink, -del, -listlink
Modes ==
    { [bat |-> b, hl |-> h, del |-> d, list |-> FALSE] : b, h, d \in BOOLEAN }
    \cup { [bat |-> FALSE, hl |-> FALSE, del |-> FALSE, list |-> TRUE] }

ContentA == << 1, 2, 3 >>
ContentB == << 1, 2, 4 >>
ContentD == << 7, 2, 3 >>
ContentZ == << 0, 0, 0 >>
ContentE == << >>
ContentS == << 1, 2 >>

\* which scanned names are names of one physical file
Separate == (PathRA :> 1) @@ (PathCP :> 2) @@ (PathCA :> 3) @@ (PathCB :> 4)
Linked2 == (PathRA :> 1) @@ (PathCP :> 2) @@ (PathCA :> 3) @@ (PathCB :> 3)
Linked3 == (PathRA :> 1) @@ (PathCP :> 2) @@ (PathCA :> 2) @@ (PathCB :> 2)
Crossed == (PathRA :> 1) @@ (PathCP :> 2) @@ (PathCA :> 1) @@ (PathCB :> 2)
Shared == (PathRA :> 1) @@ (PathCP :> 2) @@ (PathCA :> 2) @@ (PathCB :> 4)

Fill(c1, c2, c3, c4) == << c1, c2, c3, c4 >>
NoExt == << 0, 0, 0, 0 >>
NoneReadonly == << FALSE, FALSE, FALSE, FALSE >>
ReadonlyCA == << FALSE, FALSE, TRUE, FALSE >>

Config(mode, rdonly, skipz, ign, ino, content, ro, ext) ==
    [mode |-> mode, rdonly |-> rdonly, skipz |-> skipz, ign |-> ign,
     ino |-> ino, content |-> content, ro |-> ro, ext |-> ext]

\* modes that act on a duplicate, and the plain listing
SomeModes == { m \in Modes : ~m.list /\ (m.hl # m.del) } \cup { m \in Modes : ~m.list /\ ~m.bat /\ ~m.hl /\ ~m.del }

\* every mode over duplicates, hard links and read-only files
ModeConfigs ==
    { Config(m, x.rd, TRUE, << >>, ino, Fill(ContentA, ContentA, ContentA, ContentA),
             x.ro, NoExt) :
        m \in Modes, ino \in { Separate, Linked2 },
        x \in { [rd |-> FALSE, ro |-> NoneReadonly], [rd |-> FALSE, ro |-> ReadonlyCA],
                [rd |-> TRUE, ro |-> ReadonlyCA] } }
    \cup
    { Config(m, FALSE, TRUE, << >>, Linked3,
             Fill(ContentA, ContentA, ContentA, ContentA), NoneReadonly, NoExt) :
        m \in { x \in Modes : ~x.bat /\ ~x.del } }

\* files of one size that agree on the bytes of the prefix signature only
PrefixConfigs ==
    { Config(m, FALSE, TRUE, << >>, Separate,
             Fill(ContentA, ContentB, ContentA, ContentB), NoneReadonly, NoExt) :
        m \in SomeModes }

\* physical files close to the limit of 1023 links
CapacityConfigs ==
    { Config(m, FALSE, TRUE, << >>, ino, Fill(ContentA, ContentA, ContentA, ContentA),
             NoneReadonly, ext) :
        m \in { x \in Modes : x.hl # x.del },
        ino \in { Separate, Linked2 },
        ext \in { << 0, 1021, 0, 0 >>, << 0, 1022, 0, 0 >>, << 1021, 0, 0, 0 >> } }

\* a read-only pair of hard links whose physical file is at the limit
ReadonlyCapacityConfigs ==
    { Config(m, FALSE, TRUE, << >>, Linked2, Fill(ContentA, ContentA, ContentA, ContentA),
             ReadonlyCA, << 0, 0, 1021, 0 >>) :
        m \in { x \in Modes : x.hl /\ ~x.del } }

\* two scanned names of one physical file that is two links below the limit
SharedCapacityConfigs ==
    { Config(m, FALSE, TRUE, << >>, Shared, Fill(ContentA, ContentA, ContentA, ContentA),
             NoneReadonly, << 0, 1020, 0, 0 >>) :
        m \in { x \in Modes : x.hl /\ ~x.del } }

\* empty files, -z and -ign
ZeroConfigs ==
    { Config(m, FALSE, sz, ign, Separate, c, NoneReadonly, NoExt) :
        m \in SomeModes,
        sz \in BOOLEAN, ign \in { << >>, << IgnoreB >> },
        c \in { Fill(ContentE, ContentA, ContentE, ContentA),
                Fill(ContentE, ContentE, ContentA, ContentA) } }

\* signatures whose crc word is 0, and three different prefix signatures
SignatureConfigs ==
    { Config(m, FALSE, TRUE, << >>, Separate, c, NoneReadonly, NoExt) :
        m \in { x \in Modes : ~x.bat /\ ~x.del },
        c \in { Fill(ContentZ, ContentZ, ContentZ, ContentD),
                Fill(ContentA, ContentD, ContentZ, ContentB),
                Fill(ContentD, ContentZ, ContentA, ContentD) } }

\* -listlink over two physical files whose names alternate in the scanning
\* order, over files with one scanned name each, with -ign and with -z
ListMode == [bat |-> FALSE, hl |-> FALSE, del |-> FALSE, list |-> TRUE]
ListConfigs ==
    { Config(ListMode, FALSE, TRUE, ign, Crossed,
             Fill(ContentA, ContentA, ContentA, ContentA), NoneReadonly, NoExt) :
        ign \in { << >>, << IgnoreB >> } }
    \cup
    { Config(ListMode, FALSE, FALSE, ign, Crossed,
             Fill(ContentE, ContentE, ContentE, ContentE), NoneReadonly, NoExt) :
        ign \in { << >>, << IgnoreB >> } }
    \cup
    { Config(ListMode, FALSE, TRUE, << >>, Separate,
             Fill(ContentA, ContentA, ContentA, ContentA), NoneReadonly, << 1, 1, 0, 2 >>) }

Configs ==
    ModeConfigs \cup PrefixConfigs \cup CapacityConfigs \cup ReadonlyCapacityConfigs
    \cup SharedCapacityConfigs
    \cup ZeroConfigs \cup SignatureConfigs \cup ListConfigs

ZeroStats == [ TotalFiles |-> 0, DuplicateFiles |-> 0, HardlinkGroups |-> 0,
               CantReadFiles |-> 0, ZeroLengthFiles |-> 0, IgnoredFiles |-> 0,
               TotalBytes |-> 0, DuplicateBytes |-> 0 ]

\* main up to its loop over the file patterns (lines 1001-1164)
Setup(cfg) ==
    /\ fsIno = cfg.ino
    /\ fsContent = cfg.content
    /\ fsReadonly = cfg.ro
    /\ fsExtLinks = cfg.ext
    /\ fsMtime = << 11, 12, 13, 14 >>
    /\ BatchFileName = IF cfg.mode.bat THEN BatName ELSE NoName
    /\ MakeHardLinks = cfg.mode.hl
    /\ DelDuplicates = cfg.mode.del
    /\ HardlinkSearchMode = cfg.mode.list
    /\ DoReadonly = cfg.rdonly
    /\ SkipZeroLength = cfg.skipz
    /\ IgnorePatterns = cfg.ign
    /\ argn = 0
    /\ ReferenceFiles = FALSE
    /\ PathData = << >>
    /\ pending = << >>
    /\ Records = << >>
    /\ FileData = 0
    /\ NumAllocated = UNITS_PER_ALLOCATION
    /\ NumUnique = 0
    /\ Others = [count |-> 0, after |-> 0]
    /\ FileDataMap = << >>
    /\ FilenameSet = << >>
    /\ DupeStats = ZeroStats
    /\ Script = << >>
    /\ Groups = << >>
    /\ status = "run"
    /\ faults = 0
    /\ ev = NoStep
    /\ touched = {}
    /\ refPrefixes = {}
    /\ judged = [files |-> 0, bytes |-> 0]
    /\ observed = {}
    /\ processed = {}
    /\ taken = << >>

\* the hasher is not looked at on its own in a run of the program
NoHash == [xs |-> << >>, ys |-> << >>, whole |-> << >>, first |-> << >>,
           second |-> << >>, chunked |-> << >>]

Init == \E cfg \in Configs : Setup(cfg) /\ (cfg.mode.list => ~cfg.rdonly) /\ hasher = NoHash

Next ==
    \/ \E ref \in BOOLEAN, pat \in Patterns : MainArg(ref, pat)
    \/ CallProcessFile
    \/ Finish

Spec == Init /\ [][Next]_vars

\* The runs that also scan a large directory, so that the first block of the
\* record store is filled: over files of different prefix signatures, equal
\* files, files of two sizes and hard links, in the modes that print, link and list
BlockConfigs ==
    { Config(m, FALSE, TRUE, << >>, ino, c, NoneReadonly, NoExt) :
        m \in { x \in Modes : ~x.bat /\ ~x.del },
        ino \in { Separate, Crossed },
        c \in { Fill(ContentA, ContentD, ContentZ, ContentB),
                Fill(ContentA, ContentA, ContentA, ContentA),
                Fill(ContentS, ContentD, ContentZ, ContentB) } }
InitBlocks == \E cfg \in BlockConfigs : Setup(cfg) /\ hasher = NoHash
NextBlocks == Next \/ ScanOthers
SpecBlocks == InitBlocks /\ [][NextBlocks]_vars

\* The hasher on its own: CalcCrc over two byte sequences xs and ys, in one call
\* over xs followed by ys, in two calls of which the second continues from the
\* checksum of the first, and in the loop of ReadFileAndCalculateCRC with a
\* buffer of 1..MaxChunk bytes. A checksum not yet computed is << >>.
ByteSamples == { 0, 1, 128, 255 }
BytesUpTo(n) == UNION { [1..k -> ByteSamples] : k \in 0..n }
PlainRun ==
    Config([bat |-> FALSE, hl |-> FALSE, del |-> FALSE, list |-> FALSE], FALSE, TRUE,
           << >>, Separate, Fill(ContentA, ContentA, ContentA, ContentA), NoneReadonly, NoExt)
OtherVars ==
    << fsIno, fsContent, fsReadonly, fsExtLinks, fsMtime,
       BatchFileName, MakeHardLinks, DelDuplicates, DoReadonly, HardlinkSearchMode,
       SkipZeroLength, IgnorePatterns, argn, ReferenceFiles, PathData, pending,
       Records, FileData, NumAllocated, NumUnique, Others, FileDataMap, FilenameSet,
       DupeStats, Script, Groups, status, faults, ev, touched, refPrefixes, judged,
       observed, processed, taken >>

InitHasher ==
    /\ Setup(PlainRun)
    /\ \E xs \in BytesUpTo(MaxChunk), ys \in BytesUpTo(MaxChunk) :
          hasher = [NoHash EXCEPT !.xs = xs, !.ys = ys]

\* CalcCrc(&Check, xs ++ ys, n) from Check = {0, 0}
HashWhole ==
    /\ hasher.whole = << >>
    /\ hasher' = [hasher EXCEPT !.whole = CalcCrc(ZeroChecksum, hasher.xs \o hasher.ys)]
    /\ UNCHANGED OtherVars

\* CalcCrc(&Check, xs, n) from Check = {0, 0}
HashFirst ==
    /\ hasher.first = << >>
    /\ hasher' = [hasher EXCEPT !.first = CalcCrc(ZeroChecksum, hasher.xs)]
    /\ UNCHANGED OtherVars

\* CalcCrc(&Check, ys, n) from the Check the call over xs left
HashContinue ==
    /\ hasher.first # << >>
    /\ hasher.second = << >>
    /\ hasher' = [hasher EXCEPT !.second = CalcCrc(hasher.first, hasher.ys)]
    /\ UNCHANGED OtherVars

\* the loop of ReadFileAndCalculateCRC over a file holding xs ++ ys
HashChunked(chunk) ==
    /\ hasher.chunked = << >>
    /\ hasher' = [hasher EXCEPT !.chunked =
                      [chunk |-> chunk,
                       checksum |-> ReadChunksOf(chunk, ZeroChecksum, hasher.xs \o hasher.ys,
                                                 Len(hasher.xs \o hasher.ys)).checksum]]
    /\ UNCHANGED OtherVars

NextHasher ==
    \/ HashWhole
    \/ HashFirst
    \/ HashContinue
    \/ \E chunk \in 1..MaxChunk : HashChunked(chunk)

SpecHasher == InitHasher /\ [][NextHasher]_vars

\* ------------------------------------------------------------- properties
\* the full-file signature of a physical file's actual content
FullSignature(i) == CalcCrc(ZeroChecksum, fsContent[i])

\* the operations of the last step that delete a name, re-link it, or name it
\* in a del / fsutil line of the script
Actions == { k \in 1..Len(ev.ops) : ev.ops[k].op \in {"unlink", "link", "del", "fsutil"} }

\* the comparisons of the last step that ended in an action on the incoming file
Acted == { j \in 1..Len(ev.cmp) : ev.cmp[j].r = 2 }

\* C1: an incoming file is deleted, replaced by a hard link or named in a del or
\* fsutil line only if the comparator judged it HardLinked, or its full-file
\* signature equals that of the survivor's actual content; files of one size that
\* agree on the prefix only trigger no action and leave duplicate_files unchanged.
\* (Stated for the runs without any I/O failure, as are C2, C6, C8 and C10.)
C1_ActsOnlyOnEqualContent ==
    faults = 0 =>
    /\ Actions # {} =>
          \E j \in 1..Len(ev.cmp) :
              \/ ev.cmp[j].rel = "HardLinked"
              \/ /\ ev.cmp[j].rel = "ContentEqual"
                 /\ fsIno[ev.cmp[j].name] # NoFile
                 /\ FullSignature(ev.ino) = FullSignature(fsIno[ev.cmp[j].name])
    /\ \A j \in 1..Len(ev.cmp) :
          (/\ fsIno[ev.cmp[j].name] # NoFile
           /\ ev.ino # NoFile
           /\ Len(fsContent[ev.ino]) = Len(fsContent[fsIno[ev.cmp[j].name]])
           /\ FullSignature(ev.ino) # FullSignature(fsIno[ev.cmp[j].name])
           /\ ev.ino # fsIno[ev.cmp[j].name])
          => ev.cmp[j].r = 0

\* C2: a file whose parent directory is the directory prefix of a -ref pattern is
\* never deleted, never replaced by a hard link and never named as the target of
\* a del or fsutil line, whatever the order of the -ref and other arguments.
C2_ReferenceFilesKept ==
    faults = 0 => \A p \in touched : DirPrefix(p) \notin refPrefixes

\* C6: with make_hard_links set, a step whose incoming file the comparator judged
\* HardLinked performs no file system operation (no delete, no link, no change of
\* attributes) and leaves the survivor's in-memory link count as it was, with or
\* without a script file, read-only or not.
C6_HardLinkedIsNoOp ==
    (MakeHardLinks /\ faults = 0) =>
        \A j \in 1..Len(ev.cmp) :
            ev.cmp[j].rel = "HardLinked" =>
                /\ \A k \in 1..Len(ev.ops) : ev.ops[k].op \notin {"unlink", "link", "chmod"}
                /\ fsIno = ev.fsIno
                /\ fsReadonly = ev.fsReadonly
                /\ Records[ev.cmp[j].dupe].NumLinks = ev.cmp[j].links

\* C8: at the end of a run duplicate_files is the number of incoming files judged
\* ContentEqual or HardLinked, and duplicate_bytes the sum of their sizes.
C8_StatsCountEveryDuplicate ==
    (status \in {"done", "nofiles"} /\ faults = 0) =>
        /\ DupeStats.DuplicateFiles = judged.files
        /\ DupeStats.DuplicateBytes = judged.bytes

\* C10: a path that contains an ignore substring is counted under IgnoredFiles,
\* is put in the index, and is never handed to the comparator, neither as the
\* incoming file nor as the survivor of a later file; it is never deleted, linked
\* or used as a link target.
C10_IgnoredNeverCompared ==
    faults = 0 =>
    /\ (ev.path # NoName /\ Ignored(ev.path) /\ ev.outcome \notin {"seen", "known", "batchfile"})
          => /\ ev.outcome = "ignored"
             /\ DupeStats.IgnoredFiles = ev.DupeStats.IgnoredFiles + 1
             /\ \E k \in 1..Len(Records) : Records[k].FileName = ev.path
             /\ ev.cmp = << >>
    /\ \A j \in 1..Len(ev.cmp) : ~Ignored(ev.cmp[j].name)
    /\ \A k \in 1..Len(ev.ops) : ~Ignored(ev.ops[k].name) /\ ~Ignored(ev.ops[k].target)

\* the last call of ProcessFile, if any, is the step the properties speak of
Stepped == ev.path # NoName
\* the run was ended by exit(EXIT_FAILURE) inside a step
Aborted == status \in {"exit", "hang"}

IdenticalSurvivors ==
    { j \in 1..Len(ev.cmp) :
        /\ ev.ino # NoFile
        /\ ev.fsIno[ev.cmp[j].name] # NoFile
        /\ ev.fsIno[ev.cmp[j].name] # ev.ino
        /\ fsContent[ev.fsIno[ev.cmp[j].name]] = fsContent[ev.ino]
        /\ ev.cmp[j].links < LINK_LIMIT }

\* C4: with -hardlink and no script file, when a writable incoming file is compared
\* with a survivor of identical bytes, another physical file and fewer than 1023
\* links, and the step meets no I/O failure, then after the step the incoming name
\* exists and names the survivor's physical file, and duplicate_files has grown by
\* 1 and duplicate_bytes by the file size (file contents never change).
C4_HardLinkReplacesDuplicate ==
    (MakeHardLinks /\ ~BatchFile /\ Stepped /\ ev.hit = {} /\ ~ev.ro) =>
        \A j \in IdenticalSurvivors :
            /\ ~Aborted
            /\ ev.cmp[j].rel = "ContentEqual"
            /\ fsIno[ev.path] # NoFile
            /\ fsIno[ev.path] = ev.fsIno[ev.cmp[j].name]
            /\ fsIno[ev.cmp[j].name] = ev.fsIno[ev.cmp[j].name]
            /\ DupeStats.DuplicateFiles = ev.DupeStats.DuplicateFiles + 1
            /\ DupeStats.DuplicateBytes = ev.DupeStats.DuplicateBytes + Len(fsContent[ev.ino])
C4_Witness ==
    /\ MakeHardLinks /\ ~BatchFile /\ ~DelDuplicates /\ ev.hit = {} /\ ~ev.ro
    /\ IdenticalSurvivors # {}
    /\ fsIno[ev.path] # ev.ino
    /\ DupeStats.DuplicateBytes > 0

\* C5: every action of a step takes as survivor a name handed to ProcessFile in an
\* earlier step; the only name whose existence or physical file changes in a step
\* is the one being processed; and a name an earlier step has processed (without
\* failing to open it) is never deleted, re-linked or scripted later.
C5_SurvivorsAreEarlierPaths ==
    Stepped =>
        /\ \A j \in Acted : ev.cmp[j].name \in ev.observed /\ ev.cmp[j].name # ev.path
        /\ \A p \in Paths \ {ev.path} : fsIno[p] = ev.fsIno[p]
        /\ \A k \in Actions : ev.ops[k].name = ev.path
        /\ (Actions # {} \/ fsIno[ev.path] # ev.ino) => ev.path \notin ev.processed
C5_Witness ==
    /\ Stepped /\ Actions # {} /\ fsIno[ev.path] # ev.ino
    /\ ev.processed # {}
    /\ \E j \in Acted : ev.cmp[j].name \in ev.processed

\* C7: when the incoming file is a confirmed content duplicate (not HardLinked), is
\* read-only and do_readonly is off, the step leaves it as it was in every mode: no
\* delete, no link, no change of its read-only attribute, no script line, and the
\* survivor's link count unchanged.
C7_ReadonlyDuplicateSkipped ==
    faults = 0 =>
    \A j \in 1..Len(ev.cmp) :
        (ev.cmp[j].rel = "ContentEqual" /\ ev.ro /\ ~DoReadonly) =>
            /\ ev.ops = << >>
            /\ fsIno = ev.fsIno
            /\ fsReadonly = ev.fsReadonly
            /\ Script = ev.Script
            /\ Records[ev.cmp[j].dupe].NumLinks = ev.cmp[j].links

\* the position in Records of the record of the last step's incoming file
NewRecord == { k \in 1..Len(Records) : Records[k].FileName = ev.path }

Accepted == { p \in DOMAIN taken : taken[p].outcome = "stored" }
\* the printed groups that list the name p
GroupsOf(p) ==
    { g \in 1..Len(Groups) : \E i \in 1..Len(Groups[g].names) : Groups[g].names[i] = p }

\* C11: at the end of a -listlink run every accepted name (a file of more than one
\* link) is printed once, in one group; two accepted names are in the same group
\* exactly if they name one physical file; the header of the group gives K, the
\* number of accepted names of that physical file, and N, its number of links.
C11_GroupsArePhysicalFiles ==
    (HardlinkSearchMode /\ status = "done") =>
        /\ \A p \in Accepted :
              /\ Cardinality(GroupsOf(p)) = 1
              /\ \A g \in GroupsOf(p) :
                    /\ Cardinality({ i \in 1..Len(Groups[g].names) : Groups[g].names[i] = p }) = 1
                    /\ Groups[g].K = Cardinality({ q \in Accepted : fsIno[q] = fsIno[p] })
                    /\ Groups[g].K = Len(Groups[g].names)
                    /\ Groups[g].N = NumberOfLinks(World, fsIno[p])
                    /\ Groups[g].N > 1
        /\ \A p, q \in Accepted : (GroupsOf(p) = GroupsOf(q)) <=> (fsIno[p] = fsIno[q])
        /\ DupeStats.HardlinkGroups = Len(Groups)
C11_Witness ==
    /\ HardlinkSearchMode /\ status = "done"
    /\ Len(Groups) >= 2
    /\ \A g \in 1..Len(Groups) : Groups[g].K = 2
    /\ Accepted = Paths
    /\ Records[1].FileName = PathRA /\ Records[2].FileName = PathCP

\* the lines the last step appended to the script
NewLines == SubSeq(Script, Len(ev.Script) + 1, Len(Script))
\* the script line names the file b, as it is or with its percent signs doubled
IsLine(line, cmd, force, b, target) ==
    /\ line.cmd = cmd /\ line.force = force
    /\ line.name \in { b, EscapeBatchName(b) }
    /\ line.target \in { target, EscapeBatchName(target) }
\* the comparisons of the last step that found a content duplicate of another
\* physical file, in a step without I/O failure of a run that writes a link script
ScriptedDuplicates ==
    IF BatchFile /\ ~DelDuplicates /\ Stepped /\ ev.hit = {}
    THEN { j \in 1..Len(ev.cmp) : ev.cmp[j].rel = "ContentEqual" }
    ELSE {}
LinkLines(a, b, readonly) ==
    /\ Len(NewLines) = (IF readonly THEN 3 ELSE 2)
    /\ IsLine(NewLines[1], "del", readonly, b, NoName)
    /\ IsLine(NewLines[2], "fsutil", FALSE, b, a)
    /\ readonly => IsLine(NewLines[3], "attrib", FALSE, b, NoName)

\* C12 (as claimed): in a run that writes a hard-link script, a read-only content
\* duplicate b of a writable survivor a gives the lines del /F b, fsutil hardlink
\* create b a, attrib +r b, in this order; a writable one gives del b (no /F) and
\* the fsutil line, and no attrib line.
C12_ScriptLinesOfDuplicate ==
    \A j \in ScriptedDuplicates :
        (~ev.ro \/ ~fsReadonly[fsIno[ev.cmp[j].name]]) =>
            LinkLines(ev.cmp[j].name, ev.path, ev.ro)

\* C12 (amended): the three lines are written for a read-only duplicate when
\* -rdonly is given; without -rdonly a read-only duplicate is skipped and no line
\* is written for it; a writable duplicate gives the del line without /F and the
\* fsutil line.
C12_ScriptLinesWithRdonly ==
    \A j \in ScriptedDuplicates :
        IF ev.ro /\ ~DoReadonly
        THEN NewLines = << >> /\ ev.cmp[j].r = 1
        ELSE LinkLines(ev.cmp[j].name, ev.path, ev.ro) /\ ev.cmp[j].r = 2
C12_Witness ==
    /\ ScriptedDuplicates # {} /\ ev.ro /\ DoReadonly
    /\ Len(NewLines) = 3 /\ NewLines[3].cmd = "attrib"

\* every percent sign of the text is one of a pair
RECURSIVE PercentsDoubled(_)
PercentsDoubled(text) ==
    IF text = << >> THEN TRUE
    ELSE IF Head(text) # PERCENT THEN PercentsDoubled(Tail(text))
    ELSE Len(text) >= 2 /\ text[2] = PERCENT /\ PercentsDoubled(Tail(Tail(text)))

\* C13: in every line of the script (del, fsutil hardlink create, attrib +r, rem
\* duplicate of) every percent sign of a file name, of the incoming file and of the
\* survivor, is doubled.
C13_PercentSignsDoubled ==
    \A k \in 1..Len(Script) :
        PercentsDoubled(Script[k].name) /\ PercentsDoubled(Script[k].target)

\* the last step met a failing _tunlink or a failing CreateHardLink
DeleteOrLinkFailed ==
    \/ ev.hit \cap {"unlink", "link"} # {}
    \/ /\ MakeHardLinks /\ ~BatchFile /\ ev.hit = {}
       /\ \E k \in 1..Len(ev.ops) : ev.ops[k].op = "unlink" /\ ev.ops[k].name = ev.path
       /\ \A k \in 1..Len(ev.ops) : ev.ops[k].op # "link"

\* C14: when the delete of the incoming file or the creation of the hard link
\* fails, the run ends at that step with exit(EXIT_FAILURE): the names still to
\* be delivered are dropped, and from the state reached no further argument is
\* expanded, no name is handed to ProcessFile and the run is not finished
\* normally (no step is possible).
C14_FailureEndsTheRun ==
    /\ DeleteOrLinkFailed => (status = "exit" /\ pending = << >>)
    /\ status = "exit" => ~ENABLED Next
C14_Witness ==
    /\ DeleteOrLinkFailed /\ status = "exit"
    /\ "link" \in ev.hit
    /\ ev.fsIno[ev.path] # NoFile /\ fsIno[ev.path] = NoFile
    /\ \E p \in Paths : /\ fsIno[p] # NoFile /\ p \notin observed
                         /\ DirPrefix(p) = DirPrefix(ev.path) /\ _tcscmp(ev.path, p) < 0

\* the records that carry the name p
RecordsOf(p) == { k \in 1..Len(Records) : Records[k].FileName = p }

\* C15: whatever names are delivered, and however often, no two records carry the
\* same file name, and a name that was taken into the index (stored, or stored as
\* ignored) has exactly one record, also after it was delivered again.
C15_OneRecordPerName ==
    /\ \A k1, k2 \in 1..Len(Records) :
          Records[k1].FileName = Records[k2].FileName => k1 = k2
    /\ \A p \in DOMAIN taken :
          taken[p].outcome \in {"stored", "ignored"} => Cardinality(RecordsOf(p)) = 1
    /\ (Stepped /\ ev.outcome = "known") => Records = ev.Records
C15_Witness ==
    /\ Stepped /\ ev.outcome = "known" /\ ev.path \in ev.processed
    /\ Cardinality(RecordsOf(ev.path)) = 1
    /\ \E j \in 1..Len(Records) : Records[j].Larger \in RecordsOf(ev.path)

\* the records that remain in the index as unique: the file was stored and no
\* comparator verdict made it a duplicate of an earlier record
UniqueRecords ==
    { k \in 1..Len(Records) :
        /\ Records[k].FileName \in DOMAIN taken
        /\ taken[Records[k].FileName].outcome = "stored"
        /\ ~taken[Records[k].FileName].judged
        /\ fsIno[Records[k].FileName] # NoFile }
\* the bytes of the file of record k
BytesOf(k) == fsContent[fsIno[Records[k].FileName]]
SameSizeAndSignature(k1, k2) ==
    /\ Len(BytesOf(k1)) = Len(BytesOf(k2))
    /\ CalcCrc(ZeroChecksum, BytesOf(k1)) = CalcCrc(ZeroChecksum, BytesOf(k2))
\* the file of record k was stored while reference files were scanned or lies in a
\* recorded reference path, or a survivor of its signature was declined for its
\* link count
StoredUncompared(k) ==
    taken[Records[k].FileName].ref \/ taken[Records[k].FileName].declined

LinksCreated == { k \in 1..Len(ev.ops) : ev.ops[k].op = "link" }

\* C17: after a step that replaced the incoming file by a hard link, the read-only
\* attribute and the modification time of the physical file the new link and the
\* survivor share are those the survivor had before the step.
C17_SurvivorKeepsModeAndTime ==
    (faults = 0 /\ ~Aborted) =>
        \A k \in LinksCreated :
            /\ fsIno[ev.path] = ev.fsIno[ev.ops[k].target]
            /\ fsIno[ev.ops[k].target] = ev.fsIno[ev.ops[k].target]
            /\ fsReadonly[fsIno[ev.path]] = ev.fsReadonly[ev.fsIno[ev.ops[k].target]]
            /\ fsMtime[fsIno[ev.path]] = ev.fsMtime[ev.fsIno[ev.ops[k].target]]

\* the hard links the last step created onto the file of record k
LinksOnto(k) == { j \in LinksCreated : ev.ops[j].target = Records[k].FileName }

\* C18: in every step the in-memory link count of a record that was in the index
\* before the step grows by the number of hard links the step created onto its
\* file (0 or 1): it stays as it was when the duplicate was only printed, only
\* deleted, only written to the script, skipped as read-only or already linked.
C18_LinkCountFollowsLinks ==
    (Stepped /\ faults = 0) =>
        \A k \in 1..Len(ev.Records) :
            /\ Records[k].NumLinks = ev.Records[k].NumLinks + Cardinality(LinksOnto(k))
            /\ Cardinality(LinksOnto(k)) <= 1

\* C19: in a -del or -hardlink run without I/O failure, when a step takes the
\* incoming name away from its physical file, a survivor the comparator matched it
\* with still exists and holds the same bytes, so that the bytes the name had are
\* still the content of an existing name.
C19_ContentSurvives ==
    ((DelDuplicates \/ MakeHardLinks) /\ faults = 0 /\ Stepped /\ ev.ino # NoFile
      /\ fsIno[ev.path] # ev.ino) =>
        /\ \E j \in Acted :
              /\ fsIno[ev.cmp[j].name] # NoFile
              /\ fsContent[fsIno[ev.cmp[j].name]] = fsContent[ev.ino]
        /\ \E q \in Paths : fsIno[q] # NoFile /\ fsContent[fsIno[q]] = fsContent[ev.ino]

\* C20: a step that stores the incoming record and writes a child reference into
\* a record of the tree writes the place of the incoming record, also when the
\* record is the first of a new block; the walk through the tree comes to an end.
C20_ChildIsTheStoredRecord ==
    /\ status # "hang"
    /\ (Stepped /\ ev.outcome = "stored") =>
          \A k \in 1..Len(ev.Records) :
              /\ Records[k].Larger # ev.Records[k].Larger
                    => Records[k].Larger \in RecordsOf(ev.path)
              /\ Records[k].Smaller # ev.Records[k].Smaller
                    => Records[k].Smaller \in RecordsOf(ev.path)

\* the records reached from record t by following Smaller and Larger
RECURSIVE Subtree(_, _, _)
Subtree(Recs, t, fuel) ==
    IF t = 0 \/ t > Len(Recs) \/ fuel = 0 THEN {}
    ELSE {t} \cup Subtree(Recs, Recs[t].Smaller, fuel - 1)
             \cup Subtree(Recs, Recs[t].Larger, fuel - 1)
\* the records reached from the root of the bucket of record k's size
InBucket(k) ==
    IF Records[k].FileSize \in DOMAIN FileDataMap
    THEN Subtree(Records, FileDataMap[Records[k].FileSize], Len(Records))
    ELSE {}
\* the records of the names whose call went to store_it
StoredRecords ==
    { k \in 1..Len(Records) :
        /\ Records[k].FileName \in DOMAIN taken
        /\ taken[Records[k].FileName].outcome = "stored" }

\* C21 (as claimed): the record of every accepted path, also of one confirmed as
\* a duplicate and acted on or skipped by the policy, is reached from the root of
\* its size bucket by following Smaller and Larger.
C21_StoredRecordInTree ==
    \A k \in StoredRecords : k \in InBucket(k)

\* C21 (amended): the record of an accepted path is reached from the root of its
\* bucket exactly if no call of EliminateDuplicate for it returned 1 or 2; the
\* record of a duplicate that was acted on or skipped as read-only is put in the
\* record store, and its name in the set of names, but no record refers to it.
C21_StoredRecordInTreeUnlessEliminated ==
    \A k \in StoredRecords :
        /\ (k \in InBucket(k)) <=> ~taken[Records[k].FileName].eliminated
        /\ taken[Records[k].FileName].eliminated =>
              /\ \A j \in 1..Len(Records) : Records[j].Larger # k /\ Records[j].Smaller # k
              /\ CalcFilenameCRC(Records[k].FileName) \in DOMAIN FilenameSet
C21_Witness ==
    /\ \E k \in StoredRecords : taken[Records[k].FileName].eliminated
    /\ \E k \in StoredRecords :
          /\ ~taken[Records[k].FileName].eliminated
          /\ \E j \in 1..Len(Records) : Records[j].Smaller = k
    /\ \E k \in StoredRecords :
          /\ ~taken[Records[k].FileName].eliminated
          /\ \E j \in 1..Len(Records) : Records[j].Larger = k /\ Records[j].Larger > j + 1

\* the records of the tree of the bucket of size s
Tree(s) == Subtree(Records, FileDataMap[s], Len(Records))
\* memcmp of the stored prefix signatures of records m and n
SigCmp(m, n) == memcmpChecksum(Records[m].Checksum, Records[n].Checksum)
\* the records reached from record n by following Larger over records of n's
\* signature only
RECURSIVE EqualChain(_, _)
EqualChain(n, fuel) ==
    IF fuel = 0 \/ Records[n].Larger = 0 \/ Records[n].Larger > Len(Records) THEN {n}
    ELSE IF SigCmp(Records[n].Larger, n) # 0 THEN {n}
    ELSE {n} \cup EqualChain(Records[n].Larger, fuel - 1)
\* the tree of every bucket is sorted by the stored prefix signatures, in the
\* order of memcmp over their eight bytes, equal signatures to the larger side
Sorted ==
    \A s \in DOMAIN FileDataMap : \A n \in Tree(s) :
        /\ \A m \in Subtree(Records, Records[n].Smaller, Len(Records)) : SigCmp(m, n) < 0
        /\ \A m \in Subtree(Records, Records[n].Larger, Len(Records)) : SigCmp(m, n) >= 0
\* the records of one signature in a tree lie on one chain along Larger
Chained ==
    \A s \in DOMAIN FileDataMap : \A m, n \in Tree(s) :
        SigCmp(m, n) = 0 =>
            \/ m \in EqualChain(n, Len(Records))
            \/ n \in EqualChain(m, Len(Records))
\* the last step linked its record k into a tree that held its signature: k is
\* the Larger child of a record of that signature, it has no Smaller child, and
\* its Larger child, if any, has a strictly larger signature
AtChainEnd(k) ==
    (\E m \in InBucket(k) \ {k} : SigCmp(m, k) = 0) =>
        /\ \E m \in InBucket(k) : Records[m].Larger = k /\ SigCmp(m, k) = 0
        /\ Records[k].Smaller = 0
        /\ Records[k].Larger # 0 => SigCmp(Records[k].Larger, k) > 0

\* C22: after any insertions the tree of every bucket is sorted by prefix
\* signature (the smaller subtree strictly below the node, the larger subtree
\* equal or above, in the comparator's order: memcmp over the signature's bytes),
\* the records of one signature form one chain along Larger, and a new record of
\* a signature the tree holds is put at the end of that chain, before the first
\* strictly larger record.
C22_TreeSortedWithEqualChains ==
    /\ Sorted
    /\ Chained
    /\ (Stepped /\ ev.outcome = "stored") =>
          \A k \in NewRecord : k \in InBucket(k) => AtChainEnd(k)
C22_Witness ==
    /\ Stepped /\ ev.outcome = "stored"
    /\ \E k \in NewRecord :
          /\ k \in InBucket(k)
          /\ \E m \in InBucket(k) : Records[m].Larger = k /\ SigCmp(m, k) = 0
          /\ Records[k].Larger # 0 /\ Records[k].Larger < k
    /\ \E j \in 1..Len(Records) : Records[j].Smaller # 0

\* C23: every record reached from the root stored under the size s in FileDataMap
\* has the size s, after any insertions, of ignored files and across the boundary
\* of a block of the record store too.
C23_BucketHoldsOneSize ==
    \A s \in DOMAIN FileDataMap : \A k \in Tree(s) : Records[k].FileSize = s

\* C24: once a comparison has stored the full-file checksum of a name in the
\* memo, no later comparison reads that file again, and the stored entry keeps
\* its value, whatever the checksum is, one with the crc word 0 too.
C24_MemoIsWriteOnce ==
    Stepped =>
        /\ ev.reread = {}
        /\ \A p \in ev.memoBefore :
              FilenameSet[CalcFilenameCRC(p)] = ev.FilenameSet[CalcFilenameCRC(p)]

\* the comparisons of the last step after which CreateHardLink was called: a
\* content duplicate of a -hardlink run without script whose _tunlink succeeded
\* (with a survivor that was accepted into the index, not stored as ignored)
LinkCalls ==
    IF MakeHardLinks /\ ~BatchFile /\ Stepped /\ "unlink" \notin ev.hit
    THEN { j \in Acted : ev.cmp[j].rel = "ContentEqual" /\ ~Ignored(ev.cmp[j].name) }
    ELSE {}
\* the number of links the physical file of name p carried before the last step
LinksBefore(p) ==
    fsExtLinks[ev.fsIno[p]] + Cardinality({ q \in Paths : ev.fsIno[q] = ev.fsIno[p] })

\* C25: in a -hardlink run CreateHardLink is never called for a survivor whose
\* physical file carries 1023 links or more, also when several records are names
\* of one physical file: the link count of the record used as survivor is never
\* below the number of links of its physical file.
C25_LinkCountCoversPhysicalFile ==
    \A j \in LinkCalls :
        /\ LinksBefore(ev.cmp[j].name) < LINK_LIMIT
        /\ ev.cmp[j].links >= LinksBefore(ev.cmp[j].name)

\* the last step took the incoming name away from its physical file: it was
\* deleted, or replaced by a hard link
IncomingDeleted == ev.ino # NoFile /\ fsIno[ev.path] # ev.ino

\* C26: a step clears the read-only attribute of a file only if it is the file of
\* the incoming name and the step then deletes that name or replaces it by a hard
\* link; after a step that does not delete the incoming name (a script run, or an
\* incoming name already hard-linked to the survivor in a -hardlink run) every
\* file has the read-only attribute it had before. (Runs without I/O failure.)
C26_ReadonlyClearedOnlyForDelete ==
    (Stepped /\ faults = 0) =>
        /\ \A i \in DOMAIN fsReadonly :
              (ev.fsReadonly[i] /\ ~fsReadonly[i]) => (i = ev.ino /\ IncomingDeleted)
        /\ \A k \in 1..Len(ev.ops) : ev.ops[k].op = "chmod" => IncomingDeleted
        /\ ~IncomingDeleted => fsReadonly = ev.fsReadonly

\* the scanned names that name no file any more (all of them exist when the run
\* starts)
Missing == { p \in Paths : fsIno[p] = NoFile }

\* C27 (as claimed): in a -hardlink run, wherever the run ends, also when it is
\* ended by a failing CreateHardLink, every name that existed before the run
\* still exists.
C27_NoPathIsLost ==
    (MakeHardLinks /\ status # "run") => Missing = {}

\* C27 (amended): in a -hardlink run a name is missing only in the state reached
\* by the exit after a failing CreateHardLink: it is the incoming name of that
\* step, which _tunlink had deleted, and the survivor it was to be linked to
\* exists. At every other point, and wherever the run ends otherwise, every name
\* exists.
C27_OnlyFailedLinkLosesPath ==
    MakeHardLinks =>
        \A p \in Missing :
            /\ status = "exit"
            /\ p = ev.path
            /\ ev.fsIno[p] # NoFile
            /\ \E k \in 1..Len(ev.ops) : ev.ops[k].op = "unlink" /\ ev.ops[k].name = p
            /\ \A k \in 1..Len(ev.ops) : ev.ops[k].op # "link"
            /\ \E j \in Acted :
                  /\ ev.cmp[j].name # p
                  /\ fsIno[ev.cmp[j].name] # NoFile
C27_Witness ==
    /\ MakeHardLinks /\ ~BatchFile /\ status = "exit"
    /\ Cardinality(Missing) = 1
    /\ \A p \in Missing : p = ev.path /\ p \in { PathCA, PathCB }
    /\ ev.processed # {}

\* C28: when ProcessFile has returned, whatever its outcome (a file that could
\* not be opened, an empty file skipped, a file of one link skipped in -listlink
\* mode, a failing read of the prefix, a root that could not be opened again, a
\* failing full read, a record stored), no handle opened by the call is open and
\* no handle was closed twice.
C28_HandlesClosedOnce ==
    Stepped => (ev.open = {} /\ ev.reclosed = {})

\* the full-file checksum the memo holds for a name: an entry that is absent or
\* has the crc word 0 stands for none
MemoOf(set, name) ==
    IF CalcFilenameCRC(name) \in DOMAIN set THEN set[CalcFilenameCRC(name)] ELSE ZeroChecksum
\* the full-file comparisons of the last step in which a read failed
FailedCompares == { k \in 1..Len(ev.full) : ev.full[k].failed }

\* C29: when the full read of the incoming file or of the survivor fails, the pair
\* is not judged a duplicate, the comparison returns 0 and no action is taken
\* against that survivor (none at all when it is the step's only comparison), and
\* the memo holds for every name, the two compared ones too, the checksum it held
\* before the comparison: one stored earlier is kept, none of the failed
\* comparison is stored.
C29_FailedReadLeavesMemo ==
    \A k \in FailedCompares :
        /\ \A j \in 1..Len(ev.cmp) :
              ev.cmp[j].name = ev.full[k].dupe =>
                  ev.cmp[j].rel = "ReadError" /\ ev.cmp[j].r = 0
        /\ \A i \in 1..Len(ev.ops) : ev.ops[i].target # ev.full[k].dupe
        /\ Len(ev.cmp) = 1 =>
              /\ ev.ops = << >>
              /\ fsIno = ev.fsIno /\ fsReadonly = ev.fsReadonly /\ Script = ev.Script
        /\ \A p \in Paths : MemoOf(ev.full[k].after, p) = MemoOf(ev.full[k].before, p)
C29_Witness ==
    /\ "full1" \in ev.hit
    /\ \E k \in FailedCompares :
          /\ ~MemoEmpty(MemoOf(ev.full[k].before, ev.full[k].dupe))
          /\ MemoOf(ev.full[k].after, ev.full[k].dupe) = MemoOf(ev.full[k].before, ev.full[k].dupe)
    /\ ev.outcome = "stored"

\* C30: for all byte sequences xs and ys, CalcCrc from (0, 0) over xs followed by
\* ys gives the checksum that CalcCrc over xs and then, continuing from its
\* result, over ys gives, in 32-bit arithmetic; so the checksum of a file does not
\* depend on the size of the chunks it is read in.
C30_HasherIsStreaming ==
    /\ (hasher.whole # << >> /\ hasher.second # << >>) => hasher.second = hasher.whole
    /\ (hasher.whole # << >> /\ hasher.chunked # << >>) =>
          hasher.chunked.checksum = hasher.whole
C30_Witness ==
    /\ Len(hasher.xs) = MaxChunk /\ Len(hasher.ys) = MaxChunk
    /\ hasher.xs[1] = 255 /\ hasher.ys[1] = 128
    /\ hasher.whole # << >> /\ hasher.second = hasher.whole
    /\ hasher.first # hasher.whole
    /\ hasher.chunked # << >> /\ hasher.chunked.chunk = 1
    /\ hasher.chunked.checksum = hasher.whole

====
